---- MODULE Spec2Model ----
(***************************************************************************)
(* Model of appelpy.discrete_model.Logit: sample alignment (_regress),     *)
(* prediction (predict) and the significance filter                         *)
(* (significant_regressors).                                               *)
(*                                                                         *)
(* Numbers.  Regressor values are small integers.  Probabilities,          *)
(* p-values and significance levels are integers in thousandths            *)
(* (0.05 is 50).  NaN is a distinguished value on which every comparison   *)
(* is false, as in IEEE arithmetic.  Inf is a value above every other.     *)
(* Standard deviations, variances, standardized values and standardized   *)
(* coefficients are integers in thousandths as well, rounded down.         *)
(*                                                                         *)
(* Environment.  solver says what the external solver does on the raw fit  *)
(* and on the standardized fit; stdout is what sys.stdout points to and     *)
(* console is what has reached the operator.  results_obj is the local     *)
(* variable of _standardize_results that holds the standardized fit.       *)
(***************************************************************************)
EXTENDS Integers, Sequences, FiniteSets, TLC

VARIABLES pc, df, regressors_list, alpha, solver, stdout, console,
          X_model, y_model, results, odds_ratios, model_selection_stats,
          X_model_standardized, results_obj, results_output_standardized,
          last

vars == <<pc, df, regressors_list, alpha, solver, stdout, console,
          X_model, y_model, results, odds_ratios, model_selection_stats,
          X_model_standardized, results_obj, results_output_standardized,
          last>>

(* ---------------------------- bounds ---------------------------------- *)
\* rows of the dataset handed to the constructor
NRows == 3
\* missing cells of a dataset in the call-level specification Spec
MaxMissing == 1
\* cells (examples times values per example) of an input handed to predict
MaxCells == 4

(* ---------------------------- numbers --------------------------------- *)
NaN == -999
Inf == 1000000

IsNaN(v) == v = NaN
\* a <= b, a >= b, a > b on floats: false as soon as one side is NaN
FLe(a, b) == a # NaN /\ b # NaN /\ a <= b
FGe(a, b) == a # NaN /\ b # NaN /\ a >= b
FGt(a, b) == a # NaN /\ b # NaN /\ a > b

Range(s) == {s[i] : i \in DOMAIN s}

\* one unit in thousandths
Scale == 1000
\* np.pi ** 2 / 3 in thousandths
PiSquaredOver3 == 3290

RECURSIVE ISqrtBetween(_, _, _)
\* the integer r with r * r <= v < (r + 1) * (r + 1), given lo * lo <= v < hi * hi
ISqrtBetween(v, lo, hi) ==
    IF hi - lo <= 1 THEN lo
    ELSE LET mid == (lo + hi) \div 2
         IN  IF mid * mid <= v THEN ISqrtBetween(v, mid, hi)
             ELSE ISqrtBetween(v, lo, mid)
\* np.sqrt, rounded down
ISqrt(v) == ISqrtBetween(v, 0, 46341)

RECURSIVE Sum(_, _)
\* s[k] + ... + s[Len(s)]
Sum(s, k) == IF k > Len(s) THEN 0 ELSE s[k] + Sum(s, k + 1)

RECURSIVE SortedSeq(_)
\* the elements of a finite set of integers in ascending order
SortedSeq(S) ==
    IF S = {} THEN <<>>
    ELSE LET m == CHOOSE x \in S : \A y \in S : x <= y
         IN  <<m>> \o SortedSeq(S \ {m})

(* ---------------------------- the dataset ------------------------------ *)
\* columns of the data frame that can serve as regressors
Columns == <<"x1", "x2">>
YBase(i) == i % 2
\* column x1 takes the values 2 and 3, column x2 the values 0 and -1
XBase(i, j) == IF j = 1 THEN 2 + ((i + 1) % 2) ELSE 0 - ((i + 1) % 2)

\* row labels: 0..n-1, a permutation of 0..n-1, and 0..n with n-1 filtered out
IndexContiguous(n) == [i \in 1..n |-> i - 1]
IndexPermuted(n) == [i \in 1..n |-> i % n]
IndexFiltered(n) == [i \in 1..n |-> IF i = n THEN n ELSE i - 1]
IndexChoices(n) == {IndexContiguous(n), IndexPermuted(n), IndexFiltered(n)}

Frames ==
    { [index |-> ix,
       y |-> [i \in 1..NRows |-> IF <<i, 0>> \in miss THEN NaN ELSE YBase(i)],
       X |-> [i \in 1..NRows |->
                [j \in 1..Len(Columns) |->
                   IF <<i, j>> \in miss THEN NaN ELSE XBase(i, j)]]] :
      ix \in IndexChoices(NRows),
      miss \in SUBSET ((1..NRows) \X (0..Len(Columns))) }

MissingCells(d) ==
    Cardinality({i \in 1..Len(d.y) : IsNaN(d.y[i])})
    + Cardinality({c \in (1..Len(d.X)) \X (1..Len(Columns)) :
                     IsNaN(d.X[c[1]][c[2]])})

RegressorLists == {<<1>>, <<1, 2>>}

\* what the external solver does on one fit: it returns a converged
\* optimum, it returns after the last iteration without converging (a
\* ConvergenceWarning, no exception), or it raises
SolverOutcomes == {"converged", "not_converged", "raises"}
Solvers == [raw : SolverOutcomes, std : SolverOutcomes]

(* ---------------------------- values not yet set ----------------------- *)
NoResults == [params |-> <<>>, converged |-> FALSE,
              llf |-> 0, prsquared |-> 0, aic |-> 0, bic |-> 0]
NoStats == [llf |-> 0, prsquared |-> 0, aic |-> 0, bic |-> 0]
NoTable == [index_name |-> "", columns |-> <<>>, rows |-> <<>>]
NoCall == [op |-> "none", alpha |-> [type |-> "none", val |-> 0],
           X |-> <<>>, ndim |-> 0, within_sample |-> FALSE,
           exc |-> "none", solver_called |-> FALSE,
           result |-> [kind |-> "none", names |-> <<>>, preds |-> <<>>]]

(* ---------------------------- _regress --------------------------------- *)
\* the regressor cells of row i (position i, 1-based) of the frame
RegressorVals(d, rl, i) == [k \in 1..Len(rl) |-> d.X[i][rl[k]]]

\* X.dropna(axis='index').index: labels of the rows without a missing regressor
X_notna(d, rl) ==
    {d.index[i] : i \in {r \in 1..Len(d.y) :
                           \A k \in 1..Len(rl) : ~IsNaN(d.X[r][rl[k]])}}

\* y.dropna(axis='index').index
y_notna(d) == {d.index[i] : i \in {r \in 1..Len(d.y) : ~IsNaN(d.y[r])}}

\* list(set(X_notna.index).intersection(set(y_notna.index))): a list of LABELS.
\* A CPython set of small non-negative integers iterates in ascending order.
Indices(d, rl) == SortedSeq(X_notna(d, rl) \cap y_notna(d))

\* .iloc[indices] reads the labels as POSITIONS (0-based) and raises
\* IndexError when one of them is not a position of the frame
IlocOutOfBounds(d, ind) == \E k \in 1..Len(ind) : ind[k] >= Len(d.y)

IlocX(d, rl, ind) ==
    [k \in 1..Len(ind) |-> [label |-> d.index[ind[k] + 1],
                            vals |-> RegressorVals(d, rl, ind[k] + 1)]]

IlocY(d, ind) ==
    [k \in 1..Len(ind) |-> [label |-> d.index[ind[k] + 1],
                            val |-> d.y[ind[k] + 1]]]

(* ---------------------------- the solver (statsmodels) ----------------- *)
\* add_constant(X_model) skips the constant when a column of the sample is
\* already a nonzero constant (has_constant='skip')
HasNonzeroConstColumn(Xm) ==
    /\ Len(Xm) > 0
    /\ \E k \in 1..Len(Xm[1].vals) :
          \A i \in 1..Len(Xm) : /\ ~IsNaN(Xm[i].vals[k])
                                /\ Xm[i].vals[k] = Xm[1].vals[k]
                                /\ Xm[i].vals[k] # 0

\* p-values the solver may report for a regressor (0.05 and 0.2)
PVals == {50, 200}
\* coefficient patterns the solver may report: regressor k gets 2 or -1
CoefPatterns == {0, 1}
SolverCoef(pat, k) == IF (k + pat) % 2 = 1 THEN 2 ELSE -1
\* the test statistic the solver reports next to a coefficient
SolverTvalue(coef) == 3 * coef

\* what model.fit() can return for a sample with a constant column added:
\* the constant first, then the regressors in the order of regressors_list
SolverResults(Xm, rl) ==
    { [params |-> <<[name |-> "const", coef |-> 1, tvalue |-> SolverTvalue(1),
                     pvalue |-> 1]>> \o
                  [k \in 1..Len(rl) |-> [name |-> Columns[rl[k]],
                                         coef |-> SolverCoef(pat, k),
                                         tvalue |-> SolverTvalue(SolverCoef(pat, k)),
                                         pvalue |-> p[k]]],
       converged |-> TRUE,
       llf |-> 0 - Len(Xm),
       prsquared |-> 100,
       aic |-> 2 * Len(Xm) + 2 * (Len(rl) + 1),
       bic |-> 2 * Len(Xm) + 3 * (Len(rl) + 1)] :
      pat \in CoefPatterns, p \in [1..Len(rl) -> PVals] }

\* sm.Logit(y, exog) refuses an empty sample and an exog with a missing value
XHasNaN(Xm) ==
    \E i \in 1..Len(Xm) : \E k \in 1..Len(Xm[i].vals) : IsNaN(Xm[i].vals[k])
LogitRejects(Xm) == Len(Xm) = 0 \/ XHasNaN(Xm)

\* variant: fit() raises when the optimizer stops without converging
FitRaises_OnNonConvergence(how) == how # "converged"

\* fit() raises only what the solver raises; a fit that does not converge
\* returns its results with mle_retvals['converged'] False
FitRaises(how) == how = "raises"

FitReturns(r, how) == [r EXCEPT !.converged = (how = "converged")]

\* exp(c) in thousandths, for the coefficients the solver reports
Exp(c) == CASE c = -1 -> 368 [] c = 0 -> 1000 [] c = 1 -> 2718
            [] c = 2 -> 7389 [] OTHER -> Inf

\* variant: every parameter, the constant included
OddsRatios_WithConst(r) ==
    [k \in 1..Len(r.params) |->
        [name |-> r.params[k].name, value |-> Exp(r.params[k].coef)]]

\* self._results.params.drop('const'), then np.exp
OddsRatios(r) ==
    [k \in 1..(Len(r.params) - 1) |->
        [name |-> r.params[k + 1].name, value |-> Exp(r.params[k + 1].coef)]]

ModelSelectionStats(r) ==
    [llf |-> r.llf, prsquared |-> r.prsquared, aic |-> r.aic, bic |-> r.bic]

(* ---------------------------- console output --------------------------- *)
ProgressStart == "Model fitting in progress..."
ProgressDone == "Model fitted."
SolverMessage == "Optimization terminated successfully."

\* print: the messages reach the operator when sys.stdout is the console
Write(out, con, msgs) == IF out = "console" THEN con \o msgs ELSE con

\* _SuppressPrints.__enter__: sys.stdout is pointed away from the console
SuppressPrintsEnter(out) == "devnull"
\* _SuppressPrints.__exit__, run by the with statement on return and on raise:
\* sys.stdout is what it was at __enter__
SuppressPrintsExit(saved) == saved

\* what fit() prints about the optimization, by its disp argument
FitMessages(disp) == IF disp THEN <<SolverMessage>> ELSE <<>>
\* model.fit(): disp defaults to 1
RawFitDisp == TRUE
\* variant: the second fit with the default disp
StdFitDisp_Verbose == TRUE
\* model_standardized.fit(disp=0)
StdFitDisp == FALSE

(* ---------------------------- predict ---------------------------------- *)
\* X_model.min() and X_model.max(): per regressor, missing values skipped
ColVals(Xm, k) == {Xm[i].vals[k] : i \in 1..Len(Xm)} \ {NaN}
ColMin(Xm, k) ==
    IF ColVals(Xm, k) = {} THEN NaN
    ELSE CHOOSE v \in ColVals(Xm, k) : \A w \in ColVals(Xm, k) : v <= w
ColMax(Xm, k) ==
    IF ColVals(Xm, k) = {} THEN NaN
    ELSE CHOOSE v \in ColVals(Xm, k) : \A w \in ColVals(Xm, k) : v >= w

\* lines 342-346: one observation, every value within [min, max]
AllValsInRange1D(Xm, x) ==
    \A k \in 1..Len(x) : FLe(ColMin(Xm, k), x[k]) /\ FLe(x[k], ColMax(Xm, k))

\* lines 352-359: example by example; both comparisons are against min()
AllValsInRangeBatch(Xm, x) ==
    \A k \in 1..Len(x) : FLe(ColMin(Xm, k), x[k]) /\ FGe(x[k], ColMin(Xm, k))

\* sm.add_constant on a numpy array: a 1-D array is taken as ONE COLUMN, and
\* no constant is added when a column is a nonzero constant (has_constant='skip')
AsColumn(x) == [i \in 1..Len(x) |-> <<x[i]>>]
NonzeroConstCol(rows, k) ==
    \A i \in 1..Len(rows) : /\ ~IsNaN(rows[i][k])
                            /\ rows[i][k] = rows[1][k]
                            /\ rows[i][k] # 0
AddConstant(rows) ==
    IF \E k \in 1..Len(rows[1]) : NonzeroConstCol(rows, k)
    THEN rows
    ELSE [i \in 1..Len(rows) |-> <<1>> \o rows[i]]

\* 1 / (1 + exp(-z)) in thousandths
SigmoidPos(z) == CASE z = 0 -> 500 [] z = 1 -> 731 [] z = 2 -> 881
                   [] z = 3 -> 953 [] z = 4 -> 982 [] z = 5 -> 993
                   [] z = 6 -> 998 [] z = 7 -> 999 [] OTHER -> 1000
Sigmoid(z) == IF IsNaN(z) THEN NaN
              ELSE IF z >= 0 THEN SigmoidPos(z) ELSE 1000 - SigmoidPos(0 - z)

RECURSIVE Dot(_, _, _)
\* np.dot(exog_row, params) from position k on; NaN as soon as a value is NaN
Dot(params, row, k) ==
    IF k > Len(row) THEN 0
    ELSE LET rest == Dot(params, row, k + 1)
         IN  IF IsNaN(row[k]) \/ IsNaN(rest) THEN NaN
             ELSE params[k].coef * row[k] + rest

\* self._results.predict(exog): exog is (examples, regressors + 1)
ShapesAligned(r, exog) == Len(exog[1]) = Len(r.params)
ResultsPredict(r, exog) ==
    [i \in 1..Len(exog) |-> Sigmoid(Dot(r.params, exog[i], 1))]

\* the exog handed to the solver, lines 340-363
Exog(X, ndim, within_sample) ==
    IF within_sample /\ ndim = 1
    THEN <<(<<1>> \o X[1])>>
    ELSE AddConstant(IF ndim = 1 THEN AsColumn(X[1]) ELSE X)

\* all_vals_in_range as np.where(all_vals_in_range, preds, NaN) reads it
InRange(Xm, X, ndim, i) ==
    IF ndim = 1 THEN AllValsInRange1D(Xm, X[1])
    ELSE AllValsInRangeBatch(Xm, X[i])

Raised(call, exc) == [call EXCEPT !.exc = exc]

\* the outcome of predict(X_predict, within_sample); X holds the examples,
\* one row for a 1-D input
PredictOutcome(Xm, r, rl, X, ndim, within_sample) ==
    LET call == [NoCall EXCEPT !.op = "predict", !.X = X, !.ndim = ndim,
                               !.within_sample = within_sample]
    IN  IF Len(rl) = 1
        THEN \* X_model is a Series: shape[1] does not exist
             Raised(call, "IndexError")
        ELSE IF Len(X[1]) # Len(rl)
        THEN Raised(call, "ValueError")
        ELSE LET exog == Exog(X, ndim, within_sample)
                 called == [call EXCEPT !.solver_called = TRUE]
             IN  IF ~ShapesAligned(r, exog)
                 THEN Raised(called, "ValueError")
                 ELSE LET preds == ResultsPredict(r, exog)
                      IN  [called EXCEPT
                             !.result.kind = "array",
                             !.result.preds =
                                IF within_sample
                                THEN [i \in 1..Len(preds) |->
                                        IF InRange(Xm, X, ndim, i)
                                        THEN preds[i] ELSE NaN]
                                ELSE preds]

\* regressor values handed to predict.  Against x1 in [2, 3]: 0 is below the
\* minimum and 2 is the minimum; against x2 in [-1, 0]: 0 is the maximum and
\* 2 is above it.  NaN is a missing value.
PredVals == {0, 2, NaN}

\* the caller holds no result of an earlier call
Idle == last.op = "none"

Predict ==
    /\ pc = "fitted"
    /\ Idle
    /\ \E ndim \in {1, 2}, m \in 1..MaxCells, within_sample \in BOOLEAN :
       \E n \in 1..(IF ndim = 1 THEN 1 ELSE MaxCells \div m) :
       \E X \in [1..n -> [1..m -> PredVals]] :
          last' = PredictOutcome(X_model, results, regressors_list,
                                 X, ndim, within_sample)
    /\ UNCHANGED <<pc, df, regressors_list, alpha, solver, stdout, console,
                   X_model, y_model, results, odds_ratios,
                   model_selection_stats, X_model_standardized, results_obj,
                   results_output_standardized>>

(* ---------------------------- _standardize_results ------------------- *)
\* column k of the sample, row by row
ColSeq(Xm, k) == [i \in 1..Len(Xm) |-> Xm[i].vals[k]]

\* n * sum(v^2) - sum(v)^2, which is n * (n - 1) times the sample variance
SumSquaredDev(v) ==
    Len(v) * Sum([i \in 1..Len(v) |-> v[i] * v[i]], 1) - Sum(v, 1) * Sum(v, 1)

\* .std(ddof=1) in thousandths; NaN for fewer than two values
Std(v) ==
    IF Len(v) < 2 THEN NaN
    ELSE ISqrt((SumSquaredDev(v) * Scale * Scale) \div (Len(v) * (Len(v) - 1)))

\* stdev_X = X_model.std(ddof=1): one entry per regressor, labelled by name
StdevX(Xm, rl) ==
    [k \in 1..Len(rl) |-> [name |-> Columns[rl[k]], value |-> Std(ColSeq(Xm, k))]]

\* (x - mean) / stdev in thousandths; 0 / 0 and x / NaN are NaN
StandardizedValue(v, i, sd) ==
    IF IsNaN(sd) \/ sd = 0 THEN NaN
    ELSE ((Len(v) * v[i] - Sum(v, 1)) * Scale * Scale) \div (Len(v) * sd)

\* (X_model - X_model.mean()) / stdev_X
Standardized(Xm) ==
    [i \in 1..Len(Xm) |->
        [label |-> Xm[i].label,
         vals |-> [k \in 1..Len(Xm[i].vals) |->
                     StandardizedValue(ColSeq(Xm, k), i, Std(ColSeq(Xm, k)))]]]

\* sm.Logit(y, add_constant(X_model_standardized)) refuses the standardized
\* sample when a column has no spread: its values are NaN
StandardizeRejects(Xm) == LogitRejects(Standardized(Xm))

\* variant: an exception of the second fit is swallowed
StandardizeRaises_Swallowed(Xm, sv) == StandardizeRejects(Xm)

\* the second fit raises: the sample is refused or the solver raises
StandardizeRaises(Xm, sv) == StandardizeRejects(Xm) \/ FitRaises(sv.std)

\* model_standardized.fit(disp=0) on the standardized sample: the optimum of
\* the same likelihood in the rescaled regressors, so each slope is the raw
\* slope times the regressor's standard deviation (in thousandths) and the
\* constant absorbs the means
SolverResultsStandardized(r, Xm, rl) ==
    [r EXCEPT !.params =
        [k \in 1..Len(r.params) |->
           IF k = 1
           THEN [r.params[1] EXCEPT !.coef =
                   r.params[1].coef * Scale
                   + Sum([j \in 1..Len(rl) |->
                            (r.params[j + 1].coef * Sum(ColSeq(Xm, j), 1) * Scale)
                            \div Len(Xm)], 1)]
           ELSE [r.params[k] EXCEPT !.coef =
                   r.params[k].coef * Std(ColSeq(Xm, k - 1))]]]

\* the entry of a labelled sequence with the given name
Named(entries, name) ==
    entries[CHOOSE k \in 1..Len(entries) : entries[k].name = name]

\* variant: the index of the table is every parameter of the second fit
OutputIndices_WithConst(ro) == [k \in 1..Len(ro.params) |-> ro.params[k].name]

\* results_obj.params.drop('const').index
OutputIndices(ro) ==
    [k \in 1..(Len(ro.params) - 1) |-> ro.params[k + 1].name]

\* self._results.fittedvalues: the linear predictor of each row of the sample
FittedValues(r, Xm) ==
    [i \in 1..Len(Xm) |-> Dot(r.params, <<1>> \o Xm[i].vals, 1)]

\* var_explained = fittedvalues.std() ** 2, in thousandths
VarExplained(r, Xm) ==
    LET sd == Std(FittedValues(r, Xm)) IN (sd * sd) \div Scale

\* variant: the variance of the logistic error is left out
VarYstar_NoError(r, Xm) == VarExplained(r, Xm)

\* var_ystar = var_explained + pi^2 / 3
VarYstar(r, Xm) == VarExplained(r, Xm) + PiSquaredOver3

\* (coef * stdev_X) / np.sqrt(var_ystar), in thousandths
CoefStdXy(coef, stdev, var_ystar) ==
    (coef * stdev * Scale) \div ISqrt(var_ystar * Scale)

\* the table behind results_output_standardized: use_t is False for Logit,
\* so the columns 't' and 'P>|t|' are renamed; every column is filled by
\* label from the series it is assigned
StandardizedOutput(r, ro, Xm, rl) ==
    [index_name |-> "y",
     columns |-> <<"coef", "z", "P>|z|", "coef_stdX", "coef_stdXy", "stdev_X">>,
     rows |-> LET idx == OutputIndices(ro)
              IN  [k \in 1..Len(idx) |->
                     [name |-> idx[k],
                      coef |-> Named(r.params, idx[k]).coef,
                      stat |-> Named(r.params, idx[k]).tvalue,
                      pvalue |-> Named(r.params, idx[k]).pvalue,
                      coef_stdX |-> Named(ro.params, idx[k]).coef,
                      coef_stdXy |->
                         IF idx[k] = "const" THEN NaN
                         ELSE CoefStdXy(Named(r.params, idx[k]).coef,
                                        Named(StdevX(Xm, rl), idx[k]).value,
                                        VarYstar(r, Xm)),
                      stdev_X |->
                         IF idx[k] = "const" THEN NaN
                         ELSE Named(StdevX(Xm, rl), idx[k]).value]]]

(* ---------------------------- __init__ --------------------------------- *)
Failed(exc) == [NoCall EXCEPT !.op = "__init__", !.exc = exc]

\* the exception _regress ends with on the sample Xm, "none" when it returns:
\* sm.Logit or fit raises, or no constant was added and params.drop('const')
\* raises
RegressOutcome(Xm, sv) ==
    IF LogitRejects(Xm) \/ FitRaises(sv.raw) THEN "FitError"
    ELSE IF HasNonzeroConstColumn(Xm) THEN "KeyError"
    ELSE "none"

\* what has reached the operator when _regress ends
RegressConsole(Xm, sv, out, con) ==
    IF LogitRejects(Xm) THEN con
    ELSE LET started == Write(out, con, <<ProgressStart>>)
             fitting == Write(SuppressPrintsEnter(out), started,
                              FitMessages(RawFitDisp))
         IN  IF FitRaises(sv.raw) THEN fitting
             ELSE Write(SuppressPrintsExit(out), fitting, <<ProgressDone>>)

\* sys.stdout when _regress ends
RegressStdout(Xm, sv, out) ==
    IF LogitRejects(Xm) THEN out ELSE SuppressPrintsExit(out)

\* what has reached the operator when _standardize_results ends
StandardizeConsole(Xm, sv, out, con) ==
    IF StandardizeRejects(Xm) THEN con ELSE Write(out, con, FitMessages(StdFitDisp))

\* Logit(df, y_list, regressors_list, alpha): _regress, then
\* _standardize_results.  An exception of either leaves no Model.
Construct ==
    /\ pc = "new"
    /\ LET ind == Indices(df, regressors_list)
       IN  IF IlocOutOfBounds(df, ind)
           THEN /\ pc' = "failed"
                /\ last' = Failed("IndexError")
                /\ UNCHANGED <<stdout, console, X_model, y_model, results,
                               odds_ratios, model_selection_stats,
                               X_model_standardized, results_obj,
                               results_output_standardized>>
           ELSE LET Xm == IlocX(df, regressors_list, ind)
                    ym == IlocY(df, ind)
                    exc == RegressOutcome(Xm, solver)
                    out == RegressStdout(Xm, solver, stdout)
                    con == RegressConsole(Xm, solver, stdout, console)
                IN  /\ X_model' = Xm
                    /\ y_model' = ym
                    /\ stdout' = out
                    /\ IF exc # "none"
                       THEN \* _regress raises
                            /\ pc' = "failed"
                            /\ last' = Failed(exc)
                            /\ console' = con
                            /\ UNCHANGED <<results, odds_ratios,
                                           model_selection_stats,
                                           X_model_standardized, results_obj,
                                           results_output_standardized>>
                       ELSE IF StandardizeRaises(Xm, solver)
                       THEN \* _standardize_results raises
                            /\ pc' = "failed"
                            /\ last' = Failed("FitError")
                            /\ console' = StandardizeConsole(Xm, solver, out, con)
                            /\ UNCHANGED <<results, odds_ratios,
                                           model_selection_stats,
                                           X_model_standardized, results_obj,
                                           results_output_standardized>>
                       ELSE \E fit \in SolverResults(Xm, regressors_list) :
                            LET r == FitReturns(fit, solver.raw)
                                ro == FitReturns(
                                        SolverResultsStandardized(
                                          fit, Xm, regressors_list),
                                        solver.std)
                            IN  /\ results' = r
                                /\ odds_ratios' = OddsRatios(r)
                                /\ model_selection_stats' = ModelSelectionStats(r)
                                /\ X_model_standardized' = Standardized(Xm)
                                /\ results_obj' = ro
                                /\ results_output_standardized' =
                                      StandardizedOutput(r, ro, Xm,
                                                         regressors_list)
                                /\ console' =
                                      StandardizeConsole(Xm, solver, out, con)
                                /\ pc' = "fitted"
                                /\ last' = NoCall
    /\ UNCHANGED <<df, regressors_list, alpha, solver>>

(* ---------------------------- significant_regressors ------------------- *)
\* variant: the range check lets 0.0 pass (alpha < 0)
AlphaError_ZeroAllowed(a) ==
    IF a.type # "float" THEN "TypeError"
    ELSE IF FGt(0, a.val) \/ FGt(a.val, 100) THEN "ValueError"
    ELSE "none"

\* variant: isinstance(alpha, (int, float)) in place of the exact type test
AlphaError_IsInstance(a) ==
    IF a.type \notin {"float", "int", "float64"} THEN "TypeError"
    ELSE IF FLe(a.val, 0) \/ FGt(a.val, 100) THEN "ValueError"
    ELSE "none"

\* lines 386-392: "none" when alpha passes both checks
AlphaError(a) ==
    IF a.type # "float" THEN "TypeError"
    ELSE IF FLe(a.val, 0) \/ FGt(a.val, 100) THEN "ValueError"
    ELSE "none"

\* self._results.pvalues: the results wrapper builds a new Series, labelled by
\* parameter name, each time the attribute is read
Pvalues(r) ==
    [k \in 1..Len(r.params) |-> [name |-> r.params[k].name,
                                 pvalue |-> r.params[k].pvalue]]

HasConst(series) == \E k \in 1..Len(series) : series[k].name = "const"

RECURSIVE DropConst(_)
\* series.drop('const', inplace=True): the entries not labelled 'const'
DropConst(series) ==
    IF series = <<>> THEN <<>>
    ELSE (IF Head(series).name = "const" THEN <<>> ELSE <<Head(series)>>)
         \o DropConst(Tail(series))

\* variant: the drop reaches the stored p-values and coefficients
StoredAfterDrop_Shared(r) ==
    [r EXCEPT !.params = SelectSeq(r.params, LAMBDA q : q.name # "const")]

\* the stored results after line 395: the drop acts on the Series the wrapper
\* handed out, the fit results keep the constant
StoredAfterDrop(r) == r

RECURSIVE IndicesSignificant_Strict(_, _, _)
\* variant: regressor_pvalues < alpha
IndicesSignificant_Strict(series, a, k) ==
    IF k > Len(series) THEN <<>>
    ELSE (IF FGt(a, series[k].pvalue) THEN <<k>> ELSE <<>>)
         \o IndicesSignificant_Strict(series, a, k + 1)

RECURSIVE IndicesSignificant_Reversed(_, _, _)
\* variant: alpha <= regressor_pvalues
IndicesSignificant_Reversed(series, a, k) ==
    IF k > Len(series) THEN <<>>
    ELSE (IF FLe(a, series[k].pvalue) THEN <<k>> ELSE <<>>)
         \o IndicesSignificant_Reversed(series, a, k + 1)

RECURSIVE IndicesSignificant(_, _, _)
\* np.where(regressor_pvalues <= alpha)[0], from position k on
IndicesSignificant(series, a, k) ==
    IF k > Len(series) THEN <<>>
    ELSE (IF FLe(series[k].pvalue, a) THEN <<k>> ELSE <<>>)
         \o IndicesSignificant(series, a, k + 1)

\* lines 394-403
SignificantOutcome(r, a) ==
    LET call == [NoCall EXCEPT !.op = "significant_regressors", !.alpha = a]
    IN  IF AlphaError(a) # "none" THEN Raised(call, AlphaError(a))
        ELSE IF ~HasConst(Pvalues(r)) THEN Raised(call, "KeyError")
        ELSE LET regressor_pvalues == DropConst(Pvalues(r))
                 idx == IndicesSignificant(regressor_pvalues, a.val, 1)
             IN  IF Len(idx) = 0
                 THEN [call EXCEPT !.result.kind = "None"]
                 ELSE [call EXCEPT
                         !.result.kind = "list",
                         !.result.names =
                            [i \in 1..Len(idx) |-> regressor_pvalues[idx[i]].name]]

\* arguments handed to significant_regressors: Python floats (thousandths),
\* Python ints, a string, a numpy float64
Alphas ==
    [type : {"float"}, val : {-1000, 0, 1, 50, 100, 110, Inf, NaN}]
    \cup [type : {"int"}, val : {-1000, 0, 1000}]
    \cup [type : {"str"}, val : {0}]
    \cup [type : {"float64"}, val : {50}]

\* a caller may hold one significance result while asking for the next
SignificantRegressors ==
    /\ pc = "fitted"
    /\ Idle \/ last.op = "significant_regressors"
    /\ \E a \in Alphas :
          /\ last' = SignificantOutcome(results, a)
          /\ results' = IF AlphaError(a) = "none" /\ HasConst(Pvalues(results))
                        THEN StoredAfterDrop(results)
                        ELSE results
    /\ UNCHANGED <<pc, df, regressors_list, alpha, solver, stdout, console,
                   X_model, y_model, odds_ratios, model_selection_stats,
                   X_model_standardized, results_obj,
                   results_output_standardized>>

\* the caller drops the result (or the exception) of its last call
Return ==
    /\ pc = "fitted"
    /\ ~Idle
    /\ last' = NoCall
    /\ UNCHANGED <<pc, df, regressors_list, alpha, solver, stdout, console,
                   X_model, y_model, results, odds_ratios,
                   model_selection_stats, X_model_standardized, results_obj,
                   results_output_standardized>>

(* ---------------------------- specifications --------------------------- *)
\* any frame: every index choice, any pattern of missing cells
InitAlign ==
    /\ pc = "new"
    /\ df \in Frames
    /\ regressors_list \in RegressorLists
    /\ alpha = 50
    /\ solver \in Solvers
    /\ stdout = "console"
    /\ console = <<>>
    /\ X_model = <<>>
    /\ y_model = <<>>
    /\ results = NoResults
    /\ odds_ratios = <<>>
    /\ model_selection_stats = NoStats
    /\ X_model_standardized = <<>>
    /\ results_obj = NoResults
    /\ results_output_standardized = NoTable
    /\ last = NoCall

NextAlign == Construct

SpecAlign == InitAlign /\ [][NextAlign]_vars

\* the calls on a Model: frames with the default row index 0..n-1 and at most
\* MaxMissing missing cells, and a solver that converges on both fits
Init ==
    /\ InitAlign
    /\ df.index = IndexContiguous(NRows)
    /\ MissingCells(df) <= MaxMissing
    /\ solver = [raw |-> "converged", std |-> "converged"]

Next == Construct \/ Predict \/ SignificantRegressors \/ Return

Spec == Init /\ [][Next]_vars

(* ---------------------------- properties ------------------------------- *)
Labels(rows) == {rows[i].label : i \in 1..Len(rows)}
\* _regress got past line 210: X_model and y_model are set
Regressed == pc = "fitted" \/ (pc = "failed" /\ last.exc # "IndexError")
IsPredict == pc = "fitted" /\ last.op = "predict"
IsSignificant == pc = "fitted" /\ last.op = "significant_regressors"
Returned(call) == call.exc = "none"
\* the regressor names a significance call returned; None returns no name
Names(call) == IF call.result.kind = "list" THEN call.result.names ELSE <<>>
\* value v of regressor k lies within the training sample's [min, max]
Within(k, v) == FLe(ColMin(X_model, k), v) /\ FLe(v, ColMax(X_model, k))
\* value v of regressor k lies below the minimum or above the maximum
Outside(k, v) == FGt(ColMin(X_model, k), v) \/ FGt(v, ColMax(X_model, k))

\* C1: once _regress has run, y_model and X_model carry the same row labels,
\* neither holds a missing value, and the rows kept are exactly the rows
\* whose label is non-missing in y and in every regressor column.
C1_AlignedSample ==
    Regressed =>
       /\ Labels(y_model) = Labels(X_model)
       /\ \A i \in 1..Len(y_model) : ~IsNaN(y_model[i].val)
       /\ \A i \in 1..Len(X_model) :
             \A k \in 1..Len(X_model[i].vals) : ~IsNaN(X_model[i].vals[k])
       /\ Labels(X_model) = X_notna(df, regressors_list) \cap y_notna(df)

\* C2: in a batch predicted with within_sample=True, a prediction is kept
\* (not NaN) only if every regressor value of the example lies within
\* [min, max] of the training sample, both bounds inclusive.
C2_BatchKeptOnlyInRange ==
    (IsPredict /\ last.ndim = 2 /\ last.within_sample /\ Returned(last)) =>
       \A i \in 1..Len(last.result.preds) :
          ~IsNaN(last.result.preds[i]) =>
             \A k \in 1..Len(last.X[i]) : Within(k, last.X[i][k])

\* C3: a single observation (1-D) with a value outside [min, max] gives NaN
\* with within_sample=True, and with within_sample=False one probability in
\* [0, 1], the sigmoid of the constant plus coefficient times value over all
\* regressors.  Stated for a model fitted on two or more regressors and an
\* observation without missing values.
C3_SingleObservationOutside ==
    (/\ IsPredict /\ last.ndim = 1
     /\ Len(regressors_list) > 1
     /\ Len(last.X[1]) = Len(regressors_list)
     /\ \A k \in 1..Len(last.X[1]) : ~IsNaN(last.X[1][k])
     /\ \E k \in 1..Len(last.X[1]) : Outside(k, last.X[1][k])) =>
       /\ Returned(last)
       /\ Len(last.result.preds) = 1
       /\ IF last.within_sample
          THEN IsNaN(last.result.preds[1])
          ELSE /\ last.result.preds[1] =
                     Sigmoid(Dot(results.params, <<1>> \o last.X[1], 1))
               /\ last.result.preds[1] \in 0..1000

\* C4: when the number of regressor values per example differs from the
\* number of regressors of the fit, predict raises ValueError and the
\* solver's prediction primitive is not called.
C4_ShapeMismatchValueError ==
    (IsPredict /\ Len(last.X[1]) # Len(regressors_list)) =>
       (last.exc = "ValueError" /\ ~last.solver_called)

IsRealType(t) == t \in {"float", "int", "float64"}
InUnitTenth(v) == FGt(v, 0) /\ FLe(v, 100)

\* C5 (as claimed): a non-number alpha raises TypeError, a real number
\* outside (0, 0.1] (among them 0, -1 and 0.11) raises ValueError, and no
\* other alpha raises.
C5_AlphaErrorsByValue ==
    (IsSignificant /\ ~IsNaN(last.alpha.val)) =>
       IF ~IsRealType(last.alpha.type) THEN last.exc = "TypeError"
       ELSE IF ~InUnitTenth(last.alpha.val) THEN last.exc = "ValueError"
       ELSE last.exc = "none"

\* C5 (amended): TypeError exactly when the type of alpha is not float (a
\* string, but also the ints 0 and -1); ValueError exactly when alpha is a
\* float with alpha <= 0 or alpha > 0.1 (0.0, -1.0, 0.11); no other alpha
\* raises, and an alpha that raised produced no result (nothing is clamped).
C5_AlphaErrorsByType ==
    IsSignificant =>
       /\ last.exc = "TypeError" <=> last.alpha.type # "float"
       /\ last.exc = "ValueError" <=>
             (/\ last.alpha.type = "float"
              /\ FLe(last.alpha.val, 0) \/ FGt(last.alpha.val, 100))
       /\ last.exc \in {"TypeError", "ValueError", "none"}
       /\ last.exc # "none" => last.result.kind = "none"
       /\ last.exc = "none" => last.result.kind \in {"None", "list"}

C5_Witness ==
    /\ IsSignificant
    /\ last.alpha = [type |-> "int", val |-> 0]
    /\ last.exc = "TypeError"

\* C6: every alpha whose type is not exactly float raises TypeError, the
\* ints 0 and -1 included (type check first); a float alpha <= 0 or > 0.1,
\* 0.11 and infinity included, raises ValueError.
C6_TypeCheckBeforeRange ==
    IsSignificant =>
       /\ last.alpha.type # "float" => last.exc = "TypeError"
       /\ (/\ last.alpha.type = "float"
           /\ last.alpha.val # NaN
           /\ last.alpha.val <= 0 \/ last.alpha.val > 100)
          => last.exc = "ValueError"

C6_Witness ==
    /\ IsSignificant
    /\ last.alpha = [type |-> "float", val |-> Inf]
    /\ last.exc = "ValueError"

\* position of a regressor name in the coefficient vector
Position(name) == CHOOSE k \in 1..Len(results.params) : results.params[k].name = name

\* C7: for a valid alpha the names returned are exactly the non-constant
\* regressors with p-value <= alpha (equality qualifies), never the constant,
\* each once, in ascending position of the coefficient vector.
C7_SignificantNames ==
    (IsSignificant /\ Returned(last)) =>
       LET names == Names(last)
       IN  /\ Range(names) =
                {prm.name : prm \in
                    {q \in Range(results.params) :
                        q.name # "const" /\ FLe(q.pvalue, last.alpha.val)}}
           /\ "const" \notin Range(names)
           /\ \A i, j \in 1..Len(names) :
                 i < j => Position(names[i]) < Position(names[j])

C7_Witness ==
    /\ IsSignificant /\ Returned(last)
    /\ Len(Names(last)) = 2
    /\ \E k \in 2..Len(results.params) : results.params[k].pvalue = last.alpha.val

\* C8: when no non-constant regressor has a p-value <= alpha, the call
\* returns an empty list.
C8_EmptyListWhenNone ==
    (/\ IsSignificant /\ Returned(last)
     /\ ~IsNaN(last.alpha.val)
     /\ \A k \in 2..Len(results.params) :
           ~FLe(results.params[k].pvalue, last.alpha.val)) =>
       (last.result.kind = "list" /\ last.result.names = <<>>)

\* C9: on one fitted model, for valid alphas a1 < a2 the names returned for
\* a1 are among the names returned for a2 (None counts as no names).
C9_MonotonicInAlpha ==
    [][(/\ IsSignificant /\ Returned(last)
        /\ last'.op = "significant_regressors" /\ Returned(last')
        /\ FGt(last'.alpha.val, last.alpha.val))
       => Range(Names(last)) \subseteq Range(Names(last'))]_vars

C9_Witness ==
    /\ IsSignificant /\ Returned(last)
    /\ last.alpha.val = 100
    /\ Len(Names(last)) > 0
    /\ \E k \in 2..Len(results.params) : results.params[k].pvalue > 1

\* C10: predict and significant_regressors, returning or raising, leave
\* alpha, X_model, y_model, the fit results (constant included), odds_ratios
\* and model_selection_stats as they were after construction, and no
\* significance call fails for want of the constant.
C10_ReadOnly ==
    /\ [][pc = "fitted" =>
            /\ alpha' = alpha /\ X_model' = X_model /\ y_model' = y_model
            /\ results' = results /\ odds_ratios' = odds_ratios
            /\ model_selection_stats' = model_selection_stats
            /\ df' = df /\ pc' = pc]_vars
    /\ [](pc = "fitted" => (HasConst(Pvalues(results)) /\ last.exc # "KeyError"))

C10_Witness ==
    /\ IsSignificant /\ Returned(last)
    /\ last.result.kind = "list"
    /\ HasConst(Pvalues(results))

\* the constructor has returned or raised
Constructed == pc # "new"
\* the rows of the standardized-effect table
Rows == results_output_standardized.rows
\* np.log on the odds ratios the model can hold (thousandths in, units out)
Ln(v) == CASE v = 368 -> -1 [] v = 1000 -> 0 [] v = 2718 -> 1
           [] v = 7389 -> 2 [] OTHER -> NaN
\* sd is the standard deviation of v with the n - 1 denominator, in
\* thousandths and rounded down
IsSampleStd(sd, v) ==
    /\ Len(v) >= 2
    /\ sd >= 0
    /\ sd * sd * Len(v) * (Len(v) - 1) <= SumSquaredDev(v) * Scale * Scale
    /\ (sd + 1) * (sd + 1) * Len(v) * (Len(v) - 1)
          > SumSquaredDev(v) * Scale * Scale

\* C11: a fit that does not converge, raw or standardized, makes the
\* constructor fail; no Model holds the results of a non-converged fit.
C11_NonConvergenceSurfaced ==
    /\ pc = "fitted" => (results.converged /\ results_obj.converged)
    /\ (/\ Constructed
        /\ "raises" \notin {solver.raw, solver.std}
        /\ "not_converged" \in {solver.raw, solver.std}) => pc = "failed"

\* C11 (amended): an exception of the solver on either fit reaches the caller
\* of the constructor and no Model is returned; a fit that only fails to
\* converge raises nothing, and the Model is returned with that fit's
\* results, marked as not converged.
C11_SolverErrorsSurfaced ==
    /\ pc = "fitted" =>
          /\ "raises" \notin {solver.raw, solver.std}
          /\ results.converged = (solver.raw = "converged")
          /\ results_obj.converged = (solver.std = "converged")
    /\ (pc = "failed" /\ last.exc = "FitError") =>
          \/ "raises" \in {solver.raw, solver.std}
          \/ LogitRejects(X_model)
          \/ StandardizeRejects(X_model)

C11_Witness ==
    /\ pc = "fitted"
    /\ solver.raw = "not_converged"
    /\ ~results.converged
    /\ Len(odds_ratios) > 0

\* C12: construction is atomic: a Model is available only when the raw fit
\* and the standardized fit have both completed, and when either fit raises
\* the constructor raises and the caller sees no Model, not even the
\* attributes of the raw fit.
C12_AtomicConstruction ==
    /\ pc = "fitted" =>
          /\ "raises" \notin {solver.raw, solver.std}
          /\ results # NoResults /\ results_obj # NoResults
          /\ Len(odds_ratios) = Len(regressors_list)
          /\ Len(Rows) = Len(regressors_list)
    /\ (Constructed /\ "raises" \in {solver.raw, solver.std}) =>
          /\ pc = "failed" /\ last.op = "__init__" /\ last.exc # "none"
          /\ results = NoResults /\ odds_ratios = <<>>
          /\ model_selection_stats = NoStats
          /\ results_output_standardized = NoTable

\* the raw fit completed and the standardized fit raised
C12_Witness ==
    /\ pc = "failed" /\ last.exc = "FitError"
    /\ solver.raw = "converged" /\ solver.std = "raises"
    /\ console = <<ProgressStart, ProgressDone>>
    /\ results = NoResults

\* example i of the last predict call holds a missing value
HasNaN(x) == \E k \in 1..Len(x) : IsNaN(x[k])
\* what predict gives for the example x handed over on its own as a batch
Alone(x, within_sample) ==
    PredictOutcome(X_model, results, regressors_list, <<x>>, 2,
                   within_sample).result.preds

\* C13: with within_sample True or False, predict on an input of the right
\* width that holds a NaN does not raise; the prediction of each example
\* with a NaN is NaN, and in a batch every other example gets the prediction
\* it gets without the example that holds the NaN.
C13_NaNNeverRaises ==
    (/\ IsPredict
     /\ Len(regressors_list) > 1
     /\ \A i \in 1..Len(last.X) : Len(last.X[i]) = Len(regressors_list)
     /\ \E i \in 1..Len(last.X) : HasNaN(last.X[i])) =>
       /\ Returned(last)
       /\ Len(last.result.preds) = Len(last.X)
       /\ \A i \in 1..Len(last.X) :
             IF HasNaN(last.X[i]) THEN IsNaN(last.result.preds[i])
             ELSE <<last.result.preds[i]>> = Alone(last.X[i], last.within_sample)

\* C14: odds_ratios has one entry per non-constant regressor of the raw fit,
\* under the regressor's name and none for the constant; each entry is
\* exp(raw coefficient), and its logarithm is the raw coefficient again.
C14_OddsRatios ==
    pc = "fitted" =>
       /\ Len(odds_ratios) = Len(regressors_list)
       /\ \A k \in 1..Len(odds_ratios) :
             /\ odds_ratios[k].name = Columns[regressors_list[k]]
             /\ odds_ratios[k].name # "const"
             /\ \E j \in 2..Len(results.params) :
                   /\ results.params[j].name = odds_ratios[k].name
                   /\ odds_ratios[k].value = Exp(results.params[j].coef)
                   /\ Ln(odds_ratios[k].value) = results.params[j].coef

C14_Witness ==
    /\ pc = "fitted"
    /\ Len(odds_ratios) = 2
    /\ odds_ratios[1].value = Exp(2)
    /\ odds_ratios[2].value = Exp(-1)

\* C15: the standardized-effect table has one row per independent variable
\* and none for the constant; in each row coef, the test statistic and the
\* p-value are those of the same-named regressor of the raw fit, coef_stdX is
\* its coefficient in the standardized fit and stdev_X its standard deviation
\* in the aligned sample.
C15_StandardizedTable ==
    pc = "fitted" =>
       /\ Len(Rows) = Len(regressors_list)
       /\ \A k \in 1..Len(Rows) :
             /\ Rows[k].name = Columns[regressors_list[k]]
             /\ Rows[k].name # "const"
             /\ \E j \in 2..Len(results.params) :
                   /\ results.params[j].name = Rows[k].name
                   /\ Rows[k].coef = results.params[j].coef
                   /\ Rows[k].stat = results.params[j].tvalue
                   /\ Rows[k].pvalue = results.params[j].pvalue
             /\ \E j \in 2..Len(results_obj.params) :
                   /\ results_obj.params[j].name = Rows[k].name
                   /\ Rows[k].coef_stdX = results_obj.params[j].coef
             /\ IsSampleStd(Rows[k].stdev_X, ColSeq(X_model, k))

C15_Witness ==
    /\ pc = "fitted"
    /\ Len(Rows) = 2
    /\ Rows[2].name = "x2"
    /\ Rows[1].stdev_X > 0
    /\ Rows[1].coef_stdX # Rows[2].coef_stdX

C17_FullyStandardized ==
    pc = "fitted" =>
       \A k \in 1..Len(Rows) :
          /\ Rows[k].name # "const"
          /\ IsSampleStd(Rows[k].stdev_X, ColSeq(X_model, k))
          /\ Rows[k].coef_stdXy =
                (Rows[k].coef * Rows[k].stdev_X * Scale)
                \div ISqrt((VarExplained(results, X_model) + PiSquaredOver3)
                           * Scale)

C17_Witness ==
    /\ pc = "fitted"
    /\ \E k \in 1..Len(Rows) : Rows[k].coef_stdXy > 0
    /\ \E k \in 1..Len(Rows) : Rows[k].coef_stdXy < 0
    /\ VarExplained(results, X_model) > 0

====
